---- MODULE Spec2Model ----
(***************************************************************************)
(* Model of main.py: the FastAPI wrapper around the MeloTTS model.         *)
(*                                                                         *)
(* State: the two module globals model_instance and loading_error, the     *)
(* position of the startup hook, and an observation of the last request    *)
(* and of the sequence of responses.                                       *)
(*                                                                         *)
(* load_model, read_root and generate_speech are coroutines without any    *)
(* await, so on the event loop each one runs to completion: one action     *)
(* each.  The external collaborators (torch.cuda.is_available, the TTS     *)
(* constructor, TTS.synthesize, the sampling_rate lookup with sf.write)    *)
(* either return a value or raise; their outcome is an input of the        *)
(* action.  The print/traceback logging lines are taken not to fail.       *)
(*                                                                         *)
(* Strings are sequences of tokens: an f-string is the concatenation of    *)
(* its literal pieces and the interpolated strings, and "s contains t" is  *)
(* "t is a contiguous part of s".                                          *)
(***************************************************************************)
EXTENDS Integers, Sequences, FiniteSets, TLC

VARIABLES model_instance, loading_error, startup, boot, last, hist

vars == <<model_instance, loading_error, startup, boot, last, hist>>

\* Number of requests followed in one behaviour.
MaxRequests == 3

(***************************************************************************)
(* Python values                                                           *)
(***************************************************************************)
None == [t |-> "None"]

Str(s) == [t |-> "str", s |-> s]

\* The handle the TTS constructor returns; hps.data.sampling_rate is fixed by
\* the loaded model's configuration.
TTS(device, rate) == [t |-> "TTS", device |-> device, sampling_rate |-> rate]

\* bool(x) as `if x:` / `if not x:` evaluate it.
Truthy(x) ==
  CASE x.t = "None" -> FALSE
    [] x.t = "str" -> x.s # <<>>
    [] OTHER -> TRUE

\* t occurs in s (substring test on token sequences).
Contains(s, t) ==
  \E i \in 0..(Len(s) - Len(t)) : SubSeq(s, i + 1, i + Len(t)) = t

(***************************************************************************)
(* Outcomes of the external calls                                          *)
(***************************************************************************)
NotRun == [k |-> "notrun"]

Ret(v) == [k |-> "ret", v |-> v]

\* An exception e; msg is str(e).
Exc(msg) == [k |-> "exc", msg |-> msg]

LoadErrorTexts == {<<>>, <<"no weights">>, <<"CUDA init failed">>}

SamplingRates == {44100, 22050}

\* torch.cuda.is_available()
ProbeOutcomes == {Ret(TRUE), Ret(FALSE)} \cup {Exc(m) : m \in LoadErrorTexts}

\* TTS(language='en', device=device)
CtorOutcomes(device) ==
  {Ret(TTS(device, r)) : r \in SamplingRates} \cup {Exc(m) : m \in LoadErrorTexts}

Samples == {"pcm_a", "pcm_b"}

\* model_instance.synthesize(text, voice_name)
SynthOutcomes == {Ret(s) : s \in Samples} \cup {Exc(<<"unknown speaker">>)}

\* sf.write(buffer, audio, sampling_rate, format='WAV'): "ok" or an exception
EncodeOutcomes == {Ret("ok"), Exc(<<"bad audio data">>)}

\* The bytes sf.write leaves in the buffer for these samples at this rate.
WavBytes(samples, rate) == [format |-> "WAV", samplerate |-> rate, data |-> samples]

TTSRequest ==
  [text : {"", "Hello world"}, voice_name : {"EN-US", "EN-BR"}]

(***************************************************************************)
(* load_model: the startup hook                                            *)
(***************************************************************************)
\* A plausible slip: a further fallible step (moving the handle to the
\* device) follows the assignment inside the try.
load_model_body_late_failure(mi, le, probe, ctor) ==
  IF probe.k = "exc"
    THEN [mi |-> mi, le |-> Str(<<"Failed to load MeloTTS model: ">> \o probe.msg),
          raised |-> FALSE]
    ELSE IF ctor.k = "exc"
      THEN [mi |-> mi, le |-> Str(<<"Failed to load MeloTTS model: ">> \o ctor.msg),
            raised |-> FALSE]
      ELSE IF ctor.v.device = "cuda"
        THEN [mi |-> ctor.v,
              le |-> Str(<<"Failed to load MeloTTS model: ", "CUDA init failed">>),
              raised |-> FALSE]
        ELSE [mi |-> ctor.v, le |-> le, raised |-> FALSE]

\* A plausible slip: the except clause logs and re-raises (the commented-out
\* exit) without recording the error.
load_model_body_reraise(mi, le, probe, ctor) ==
  IF probe.k = "exc" \/ ctor.k = "exc"
    THEN [mi |-> mi, le |-> le, raised |-> TRUE]
    ELSE [mi |-> ctor.v, le |-> le, raised |-> FALSE]

\* The globals after the body of load_model, and whether an exception left it.
\* The print after the assignment of line 50 is the only statement that
\* follows it inside the try.
load_model_body(mi, le, probe, ctor) ==
  IF probe.k = "exc"
    THEN [mi |-> mi, le |-> Str(<<"Failed to load MeloTTS model: ">> \o probe.msg),
          raised |-> FALSE]
    ELSE IF ctor.k = "exc"
      THEN [mi |-> mi, le |-> Str(<<"Failed to load MeloTTS model: ">> \o ctor.msg),
            raised |-> FALSE]
      ELSE [mi |-> ctor.v, le |-> le, raised |-> FALSE]

Device(probe) == IF probe.v THEN "cuda" ELSE "cpu"

load_model ==
  /\ startup = "pending"
  /\ \E probe \in ProbeOutcomes :
       \E ctor \in (IF probe.k = "ret" THEN CtorOutcomes(Device(probe)) ELSE {NotRun}) :
         LET r == load_model_body(model_instance, loading_error, probe, ctor) IN
           /\ model_instance' = r.mi
           /\ loading_error' = r.le
           /\ boot' = [probe |-> probe, ctor |-> ctor, raised |-> r.raised]
  /\ startup' = "complete"
  /\ UNCHANGED <<last, hist>>

(***************************************************************************)
(* Responses                                                               *)
(***************************************************************************)
\* A dict returned by a handler: FastAPI sends it as 200 application/json.
JSONResponse(status, message) ==
  [code |-> 200, media_type |-> "application/json", status |-> status,
   text |-> message, body |-> None, unhandled |-> FALSE]

\* raise HTTPException(status_code, detail): sent as {"detail": detail}.
HTTPException(status_code, detail) ==
  [code |-> status_code, media_type |-> "application/json", status |-> "",
   text |-> detail, body |-> None, unhandled |-> FALSE]

\* Response(content=..., media_type=...)
Response(content, media_type) ==
  [code |-> 200, media_type |-> media_type, status |-> "",
   text |-> <<>>, body |-> content, unhandled |-> FALSE]

\* An exception other than HTTPException that leaves a handler.
Unhandled(e) ==
  [code |-> 0, media_type |-> "", status |-> "",
   text |-> e.msg, body |-> None, unhandled |-> TRUE]

NoCall == [k |-> "nocall"]

Call(self, text, voice) == [k |-> "call", self |-> self, text |-> text, voice |-> voice]

\* What one run of generate_speech did: its response, the synthesize call it
\* made (if any) and the outcomes of the external calls it reached.
Run(resp, call, synth, enc) ==
  [resp |-> resp, call |-> call, synth |-> synth, enc |-> enc]

(***************************************************************************)
(* read_root: GET /                                                        *)
(***************************************************************************)
\* A plausible slip: the two checks in the other order.
read_root_body_model_first(mi, le) ==
  IF ~Truthy(mi)
    THEN JSONResponse("loading",
           <<"MeloTTS model is still loading or failed to load. Please try again shortly.">>)
    ELSE IF Truthy(le)
      THEN JSONResponse("error",
             <<"API is running but model failed to load: ">> \o le.s)
      ELSE JSONResponse("ready", <<"MeloTTS API is running and model is loaded.">>)

read_root_body(mi, le) ==
  IF Truthy(le)
    THEN JSONResponse("error",
           <<"API is running but model failed to load: ">> \o le.s)
    ELSE IF ~Truthy(mi)
      THEN JSONResponse("loading",
             <<"MeloTTS model is still loading or failed to load. Please try again shortly.">>)
      ELSE JSONResponse("ready", <<"MeloTTS API is running and model is loaded.">>)

NoRequest == [text |-> "", voice_name |-> ""]

Observed(op, request, run) ==
  [op |-> op, pre_startup |-> startup, pre_mi |-> model_instance,
   pre_le |-> loading_error, request |-> request, resp |-> run.resp, call |-> run.call,
   synth |-> run.synth, enc |-> run.enc]

\* A plausible slip: the status endpoint loads the model on demand.
read_root_lazy_load ==
  /\ Len(hist) < MaxRequests
  /\ LET resp == read_root_body(model_instance, loading_error) IN
       /\ last' = Observed("root", NoRequest, Run(resp, NoCall, NotRun, NotRun))
       /\ hist' = Append(hist, <<"root", resp.code>>)
       /\ model_instance' = IF resp.status = "loading" THEN TTS("cpu", 44100)
                                                     ELSE model_instance
  /\ UNCHANGED <<loading_error, startup, boot>>

read_root ==
  /\ Len(hist) < MaxRequests
  /\ LET resp == read_root_body(model_instance, loading_error) IN
       /\ last' = Observed("root", NoRequest, Run(resp, NoCall, NotRun, NotRun))
       /\ hist' = Append(hist, <<"root", resp.code>>)
  /\ UNCHANGED <<model_instance, loading_error, startup, boot>>

(***************************************************************************)
(* generate_speech: POST /tts                                              *)
(***************************************************************************)
LoadFailedDetail(le) == <<"Service Unavailable: Model failed to load: ">> \o le.s

StillLoadingDetail ==
  <<"Service Unavailable: MeloTTS model is still loading. Please try again shortly.">>

GenerationFailedDetail(e) ==
  <<"TTS generation failed: ">> \o e.msg \o <<". Check server logs for details.">>

\* Lines 86-113, the try block, entered with a loaded handle and a non-empty
\* text.
\* A plausible slip: the try covers the synthesis call only.
synthesize_and_encode_uncaught(mi, request, synth, enc) ==
  LET call == Call(mi, request.text, request.voice_name) IN
    IF synth.k = "exc"
      THEN Run(HTTPException(500, GenerationFailedDetail(synth)), call, synth, NotRun)
      ELSE IF enc.k = "exc"
        THEN Run(Unhandled(enc), call, synth, enc)
        ELSE Run(Response(WavBytes(synth.v, mi.sampling_rate), "audio/wav"),
                 call, synth, enc)

\* A plausible slip: a hard-coded sample rate in place of the handle's.
synthesize_and_encode_fixed_rate(mi, request, synth, enc) ==
  LET call == Call(mi, request.text, request.voice_name) IN
    IF synth.k = "exc"
      THEN Run(HTTPException(500, GenerationFailedDetail(synth)), call, synth, NotRun)
      ELSE IF enc.k = "exc"
        THEN Run(HTTPException(500, GenerationFailedDetail(enc)), call, synth, enc)
        ELSE Run(Response(WavBytes(synth.v, 44100), "audio/wav"), call, synth, enc)

synthesize_and_encode(mi, request, synth, enc) ==
  LET call == Call(mi, request.text, request.voice_name) IN
    IF synth.k = "exc"
      THEN Run(HTTPException(500, GenerationFailedDetail(synth)), call, synth, NotRun)
      ELSE IF enc.k = "exc"
        THEN Run(HTTPException(500, GenerationFailedDetail(enc)), call, synth, enc)
        ELSE Run(Response(WavBytes(synth.v, mi.sampling_rate), "audio/wav"),
                 call, synth, enc)

Refused(status_code, detail) ==
  Run(HTTPException(status_code, detail), NoCall, NotRun, NotRun)

\* A plausible slip: the text is validated before the service state is read.
generate_speech_body_text_first(mi, le, request, synth, enc) ==
  IF request.text = ""
    THEN Refused(400, <<"Text input is required.">>)
    ELSE IF Truthy(le)
      THEN Refused(503, LoadFailedDetail(le))
      ELSE IF ~Truthy(mi)
        THEN Refused(503, StillLoadingDetail)
        ELSE synthesize_and_encode(mi, request, synth, enc)

\* A plausible slip: the text is not validated at all.
generate_speech_body_no_text_check(mi, le, request, synth, enc) ==
  IF Truthy(le)
    THEN Refused(503, LoadFailedDetail(le))
    ELSE IF ~Truthy(mi)
      THEN Refused(503, StillLoadingDetail)
      ELSE synthesize_and_encode(mi, request, synth, enc)

\* A plausible slip: the handle is tested before the load error.
generate_speech_body_loading_first(mi, le, request, synth, enc) ==
  IF ~Truthy(mi)
    THEN Refused(503, StillLoadingDetail)
    ELSE IF Truthy(le)
      THEN Refused(503, LoadFailedDetail(le))
      ELSE IF request.text = ""
        THEN Refused(400, <<"Text input is required.">>)
        ELSE synthesize_and_encode(mi, request, synth, enc)

generate_speech_body(mi, le, request, synth, enc) ==
  IF Truthy(le)
    THEN Refused(503, LoadFailedDetail(le))
    ELSE IF ~Truthy(mi)
      THEN Refused(503, StillLoadingDetail)
      ELSE IF request.text = ""
        THEN Refused(400, <<"Text input is required.">>)
        ELSE synthesize_and_encode(mi, request, synth, enc)

\* A plausible slip: a failed generation is recorded in the global error.
generate_speech_marks_failed ==
  /\ Len(hist) < MaxRequests
  /\ \E request \in TTSRequest, synth \in SynthOutcomes, enc \in EncodeOutcomes :
       LET run == generate_speech_body(model_instance, loading_error, request, synth, enc) IN
         /\ last' = Observed("tts", request, run)
         /\ hist' = Append(hist, <<"tts", run.resp.code>>)
         /\ loading_error' = IF run.resp.code = 500 THEN Str(run.resp.text)
                                                    ELSE loading_error
  /\ UNCHANGED <<model_instance, startup, boot>>

generate_speech ==
  /\ Len(hist) < MaxRequests
  /\ \E request \in TTSRequest, synth \in SynthOutcomes, enc \in EncodeOutcomes :
       LET run == generate_speech_body(model_instance, loading_error, request, synth, enc) IN
         /\ last' = Observed("tts", request, run)
         /\ hist' = Append(hist, <<"tts", run.resp.code>>)
  /\ UNCHANGED <<model_instance, loading_error, startup, boot>>

(***************************************************************************)
(* The service                                                             *)
(***************************************************************************)
Init ==
  /\ model_instance = None
  /\ loading_error = None
  /\ startup = "pending"
  /\ boot = [probe |-> NotRun, ctor |-> NotRun, raised |-> FALSE]
  /\ last = [op |-> "none", pre_startup |-> "pending", pre_mi |-> None,
             pre_le |-> None, request |-> NoRequest,
             resp |-> JSONResponse("", <<>>), call |-> NoCall,
             synth |-> NotRun, enc |-> NotRun]
  /\ hist = <<>>

Next == load_model \/ read_root \/ generate_speech

Spec == Init /\ [][Next]_vars

(***************************************************************************)
(* The service state the globals encode, as the handlers read them         *)
(***************************************************************************)
IsSet(x) == x.t # "None"

ServiceState(mi, le) ==
  IF IsSet(le) THEN "Failed" ELSE IF IsSet(mi) THEN "Ready" ELSE "Loading"

Current == ServiceState(model_instance, loading_error)

\* The state the last request was handled in.
Pre == ServiceState(last.pre_mi, last.pre_le)

Tts == last.op = "tts"

Root == last.op = "root"

\* The exception the try block of the last /tts request caught, if any.
Caught == IF last.synth.k = "exc" THEN last.synth ELSE last.enc

(***************************************************************************)
(* Properties                                                              *)
(***************************************************************************)
\* C1 as stated: every /tts request with an empty text is answered 400,
\* whatever the service state.
C1_EmptyTextAlways400 ==
  (Tts /\ last.request.text = "") => last.resp.code = 400

\* C1 amended: a /tts request with an empty text is answered 400 when the
\* service is Ready, and 503 when it is Loading or Failed.
C1_EmptyText400OnlyWhenReady ==
  (Tts /\ last.request.text = "") =>
    last.resp.code = (IF Pre = "Ready" THEN 400 ELSE 503)

C1_Witness ==
  Tts /\ last.request.text = "" /\ Pre = "Ready" /\ last.resp.code = 400

\* C2: the service state is monotonic: once Ready it stays Ready and once
\* Failed it stays Failed, so neither returns to Loading nor turns into the
\* other, in every step of startup and of any request.
C2_Monotonic ==
  [][/\ Current = "Ready" => Current' = "Ready"
     /\ Current = "Failed" => Current' = "Failed"]_vars

C2_Witness ==
  /\ Current = "Failed" /\ Len(hist) >= 2
  /\ last.pre_startup = "complete" /\ Pre = "Failed"
  /\ hist[1] = <<"root", 200>>

\* C3: a /tts request handled while the service is not Ready is answered 503,
\* for every text and voice_name.
C3_NotReady503 ==
  (Tts /\ Pre # "Ready") => last.resp.code = 503

C3_Witness ==
  Tts /\ Pre = "Loading" /\ last.request.text = "" /\ last.resp.code = 503

\* C4: when Ready with a non-empty text, an exception of the synthesis call or
\* of the encoding step gives 500 with the exception's message in the detail;
\* no exception leaves the handler unmapped, and every /tts request ends in
\* one of 200, 400, 503, 500.
C4_ExceptionsMappedTo500 ==
  Tts =>
    /\ ~last.resp.unhandled
    /\ last.resp.code \in {200, 400, 503, 500}
    /\ (Pre = "Ready" /\ last.request.text # "" /\ Caught.k = "exc") =>
         /\ last.resp.code = 500
         /\ Contains(last.resp.text, Caught.msg)

C4_Witness ==
  /\ Tts /\ Pre = "Ready" /\ last.synth.k = "ret" /\ last.enc.k = "exc"
  /\ last.resp.code = 500

\* C5: no request handler changes the service state: a step that answers a
\* request (GET / or POST /tts, whatever the answer) leaves model_instance and
\* loading_error as they were.
C5_HandlersLeaveState ==
  [][hist' # hist =>
       /\ model_instance' = model_instance
       /\ loading_error' = loading_error]_vars

\* A 500 while Ready, followed by a request served (200) from Ready.
C5_Witness ==
  /\ Len(hist) >= 2
  /\ hist[Len(hist) - 1] = <<"tts", 500>>
  /\ hist[Len(hist)] = <<"tts", 200>>
  /\ Current = "Ready"

\* C6: GET / always succeeds and its status is a function of the service
\* state: "loading" before startup completes, "ready" after a successful
\* load, "error" with the captured failure text after a failed load.
C6_StatusFollowsState ==
  Root =>
    /\ last.resp.code = 200 /\ ~last.resp.unhandled
    /\ last.resp.status =
         (CASE Pre = "Loading" -> "loading"
            [] Pre = "Ready" -> "ready"
            [] Pre = "Failed" -> "error")
    /\ last.pre_startup = "pending" => last.resp.status = "loading"
    /\ (last.pre_startup = "complete" /\ boot.ctor.k = "ret") =>
         last.resp.status = "ready"
    /\ (last.pre_startup = "complete" /\ boot.ctor.k # "ret") =>
         /\ last.resp.status = "error"
         /\ Contains(last.resp.text, last.pre_le.s)
         /\ Contains(last.resp.text,
                     IF boot.probe.k = "exc" THEN boot.probe.msg ELSE boot.ctor.msg)

C6_Witness ==
  /\ Root /\ last.resp.status = "error"
  /\ boot.ctor.k = "exc" /\ boot.ctor.msg = <<"no weights">>
  /\ Contains(last.resp.text, <<"no weights">>)

\* C7: load_model never raises past its boundary: when the constructor
\* returns, the state is Ready with that handle; when an exception is raised,
\* the state is Failed with a message containing the exception text.
C7_LoadModelRecordsOutcome ==
  startup = "complete" =>
    /\ ~boot.raised
    /\ boot.ctor.k = "ret" =>
         /\ Current = "Ready"
         /\ model_instance = boot.ctor.v
    /\ boot.probe.k = "exc" =>
         /\ Current = "Failed"
         /\ Contains(loading_error.s, boot.probe.msg)
    /\ boot.ctor.k = "exc" =>
         /\ Current = "Failed"
         /\ Contains(loading_error.s, boot.ctor.msg)

C7_Witness ==
  /\ startup = "complete" /\ boot.probe.k = "exc"
  /\ boot.probe.msg = <<"CUDA init failed">> /\ Current = "Failed"

\* C8: when Ready, with a non-empty text and both external calls returning,
\* the answer is 200 audio/wav whose body is the encoder's output for the
\* samples synthesize(text, voice_name) returned, at the sampling rate of the
\* handle held in the Ready state; 200 is produced in no other case.
C8_Audio200 ==
  Tts =>
    /\ (Pre = "Ready" /\ last.request.text # ""
          /\ last.synth.k = "ret" /\ last.enc.k = "ret") =>
         /\ last.resp.code = 200
         /\ last.resp.media_type = "audio/wav"
         /\ last.call = Call(last.pre_mi, last.request.text, last.request.voice_name)
         /\ last.resp.body = WavBytes(last.synth.v, last.pre_mi.sampling_rate)
    /\ last.resp.code = 200 =>
         /\ Pre = "Ready" /\ last.request.text # ""
         /\ last.synth.k = "ret" /\ last.enc.k = "ret"

C8_Witness ==
  /\ Tts /\ last.resp.code = 200 /\ last.request.voice_name = "EN-BR"
  /\ last.pre_mi.sampling_rate = 22050
  /\ last.resp.body.samplerate = 22050

\* C9: the preconditions are checked in the order Failed, not Ready, empty
\* text: in Failed the 503 detail carries the captured failure message (also
\* for an empty text), in Loading the 503 detail is the still-loading
\* message, and synthesize is only called with a loaded handle, no load error
\* and a non-empty text.
C9_PreconditionOrder ==
  Tts =>
    /\ Pre = "Failed" =>
         /\ last.resp.code = 503
         /\ Contains(last.resp.text, last.pre_le.s)
         /\ last.resp.text # StillLoadingDetail
    /\ Pre = "Loading" =>
         /\ last.resp.code = 503
         /\ last.resp.text = StillLoadingDetail
    /\ last.call.k = "call" =>
         /\ Pre = "Ready"
         /\ last.call.self = last.pre_mi
         /\ last.call.text = last.request.text
         /\ last.call.text # ""

C9_Witness ==
  /\ Tts /\ Pre = "Failed" /\ last.request.text = ""
  /\ last.resp.code = 503
  /\ Contains(last.resp.text, <<"Failed to load MeloTTS model: ", "no weights">>)

\* C10: at most one of model_instance and loading_error is set, so the
\* globals never hold a loaded handle together with a load error.
C10_AtMostOneSet ==
  ~(IsSet(model_instance) /\ IsSet(loading_error))

C10_Witness ==
  /\ startup = "complete" /\ IsSet(model_instance) /\ ~IsSet(loading_error)
  /\ model_instance.device = "cuda"

====
